---------------------------- MODULE Spec2Model ----------------------------
(***************************************************************************)
(* OpenPlayground: the project showcase controller (src/js/app.js).        *)
(*                                                                         *)
(* Strings are sequences of character codes (65 = "A", 97 = "a", ...), so  *)
(* that toLowerCase, includes, sanitizeKey and localeCompare are computed  *)
(* rather than assumed.  An absent or empty string is <<>>: the only test  *)
(* the code applies to a raw title or link is `!x`, which does not tell    *)
(* the two apart.  Categories, links and paths are only ever compared or   *)
(* tested for presence, and are TLA+ strings ("" = absent).                *)
(*                                                                         *)
(* Lines 77 and 78 of app.js both read                                     *)
(*     let projects = await this.fetchFromManifest();                      *)
(* The model follows the text: fetchFromManifest is called twice in        *)
(* sequence and the value of the second call is the one bound to           *)
(* `projects`.                                                             *)
(***************************************************************************)
EXTENDS Integers, Sequences, FiniteSets, TLC

VARIABLES
    manifestFile,     \* server: ./project-manifest.json
    legacyFile,       \* server: ./projects.json
    instance,         \* window.projectManagerInstance is set
    allProjects,      \* this.state.allProjects
    visibilityEngine, \* this.state.visibilityEngine: <<>> (null) or <<engine>>
    viewMode,         \* this.state.viewMode
    currentPage,      \* this.state.currentPage
    initialized,      \* this.state.initialized
    ratings,          \* this.ratings
    localStorage,     \* localStorage 'projectRatings': <<>> (no item) or <<JSON text>>
    listeners,        \* how many times setupEventListeners registered the handlers
    loads,            \* the fetchProjects calls in progress or finished
    lastDone,         \* index in loads of the fetchProjects call that finished last (0: none)
    sortSelect,       \* el.sortSelect.value
    activeFilter,     \* data-filter of the filter button carrying class 'active'
    grid,             \* what el.projectsGrid holds
    rendered,         \* what the last render() computed and displayed:
                      \*   visible: what getVisibleProjects() returned
                      \*   sorted: `filtered` after the sort
                      \*   totalPages, pageItems: as in render
                      \*   pagination: the argument of renderPagination
                      \*   emptyState: el.emptyState is displayed
    searchInput,      \* el.searchInput.value
    modal             \* the rating modal: <<>> (none) or <<[title, selectedRating]>>

vars == <<manifestFile, legacyFile, instance, allProjects, visibilityEngine,
          viewMode, currentPage, initialized, ratings, localStorage, modal, listeners,
          loads, lastDone, sortSelect, activeFilter, grid, rendered, searchInput>>

serverVars == <<manifestFile, legacyFile>>
renderVars == <<visibilityEngine, grid, rendered>>

(***************************************************************************)
(* Bounds of the model and constants of the program.                       *)
(***************************************************************************)
MaxManifest == 2      \* entries in the manifest
MaxLegacy == 2        \* records in the legacy catalog
MaxStore == 2         \* records of a store drawn for the view
MaxBig == 25          \* records of a store drawn for paging
ITEMS_PER_PAGE == 12

(***************************************************************************)
(* Strings.                                                                *)
(***************************************************************************)
Min(a, b) == IF a < b THEN a ELSE b
Max(a, b) == IF a > b THEN a ELSE b

\* String.prototype.toLowerCase on one ASCII character
LowerChar(c) == IF c \in 65..90 THEN c + 32 ELSE c

toLowerCase(s) == [i \in 1..Len(s) |-> LowerChar(s[i])]

\* String.prototype.includes
includes(hay, needle) ==
    \E i \in 0..(Len(hay) - Len(needle)) :
        \A j \in 1..Len(needle) : hay[i + j] = needle[j]

IsAlnum(c) == c \in 48..57 \/ c \in 65..90 \/ c \in 97..122

sanitizeKey(title) ==
    toLowerCase([i \in 1..Len(title) |-> IF IsAlnum(title[i]) THEN title[i] ELSE 95])


\* String.prototype.localeCompare on ASCII letters: letters compare without
\* regard to case first; strings equal up to case put the lower-case letter first.
CompareAt(x, y, i) == IF x[i] < y[i] THEN -1 ELSE 1

CompareLen(x, y) == IF Len(x) < Len(y) THEN -1 ELSE IF Len(x) > Len(y) THEN 1 ELSE 0

CompareFrom(x, y, D) ==
    IF D = {} THEN CompareLen(x, y)
    ELSE CompareAt(x, y, CHOOSE k \in D : \A m \in D : k <= m)

LexCompare(x, y) ==
    CompareFrom(x, y, {i \in 1..Min(Len(x), Len(y)) : x[i] # y[i]})

TieBreak(primary, a, b) == IF primary # 0 THEN primary ELSE -LexCompare(a, b)

\* (mutant) the titles are compared by character code
localeCompare_ByCode(a, b) == LexCompare(a, b)

localeCompare(a, b) ==
    TieBreak(LexCompare(toLowerCase(a), toLowerCase(b)), a, b)

(***************************************************************************)
(* Project records and the pools the inputs are drawn from.                *)
(***************************************************************************)
Project(t, l, c, d, tech) ==
    [title |-> t, link |-> l, category |-> c, description |-> d, tech |-> tech]

PAb == Project(<<65, 98>>, "l1", "web", <<98, 97>>, <<>>)          \* "Ab"
PaB == Project(<<97, 66>>, "l2", "game", <<>>, << <<65>> >>)       \* "aB"
Pb == Project(<<98>>, "l3", "web", <<>>, << <<99>>, <<66, 97>> >>) \* "b"
Pc == Project(<<67>>, "l4", "game", <<97, 98>>, <<>>)              \* "C"
PNoTitle == Project(<<>>, "l5", "web", <<98>>, <<>>)
PNoLink == Project(<<99, 97>>, "", "game", <<>>, <<>>)             \* "ca"
\* two titles that differ in a character that is neither letter nor digit
PSpace == Project(<<97, 32, 98>>, "l6", "web", <<>>, <<>>)            \* "a b"
PDash == Project(<<97, 45, 98>>, "l7", "game", <<>>, <<>>)            \* "a-b"

RECURSIVE SeqsUpTo(_, _)
SeqsUpTo(S, n) ==
    IF n = 0 THEN {<<>>}
    ELSE LET shorter == SeqsUpTo(S, n - 1)
         IN  shorter \cup {Append(s, x) : s \in {t \in shorter : Len(t) = n - 1}, x \in S}

(***************************************************************************)
(* ProjectVisibilityEngine (src/js/core/projectVisibilityEngine.js is not  *)
(* among the sources; modelled from its contract).                         *)
(***************************************************************************)
NewEngine(projects) ==
    [projects |-> projects, searchQuery |-> <<>>, category |-> "all",
     currentPage |-> 1, itemsPerPage |-> 0]

setSearchQuery(e, q) == [e EXCEPT !.searchQuery = q]
setCategory(e, c) == [e EXCEPT !.category = c]
setPage(e, p) == [e EXCEPT !.currentPage = p]

MatchesCategory(p, c) == c = "all" \/ p.category = c

MatchesQuery(p, q) ==
    LET lq == toLowerCase(q)
    IN  \/ includes(toLowerCase(p.title), lq)
        \/ includes(toLowerCase(p.description), lq)
        \/ \E i \in 1..Len(p.tech) : includes(toLowerCase(p.tech[i]), lq)

\* (mutant) the engine hands the matches back newest first
getVisibleProjects_Reversed(e) ==
    LET kept == SelectSeq(e.projects,
                          LAMBDA p : (e.category = "all" \/ p.category = e.category))
    IN  [i \in 1..Len(kept) |-> kept[Len(kept) + 1 - i]]

EngineKeeps(e, p) == MatchesCategory(p, e.category) /\ MatchesQuery(p, e.searchQuery)

getVisibleProjects(e) == SelectSeq(e.projects, LAMBDA p : EngineKeeps(e, p))

(***************************************************************************)
(* Ratings.  A rating map is a function from sanitized keys to sequences   *)
(* of rating records.  An average is kept as the fraction sum/count.       *)
(***************************************************************************)
RatingsOf(rt, key) == IF key \in DOMAIN rt THEN rt[key] ELSE <<>>

RECURSIVE SumRatings(_)
SumRatings(rs) ==
    IF rs = <<>> THEN 0 ELSE rs[1].rating + SumRatings(Tail(rs))

RatingOf(projectRatings) ==
    IF Len(projectRatings) = 0
    THEN [average |-> [num |-> 0, den |-> 1], count |-> 0]
    ELSE [average |-> [num |-> SumRatings(projectRatings),
                       den |-> Len(projectRatings)],
          count |-> Len(projectRatings)]

\* (mutant) the ratings are looked up under the title as written
getProjectRating_RawTitle(rt, projectTitle) == RatingOf(RatingsOf(rt, projectTitle))

getProjectRating(rt, projectTitle) ==
    RatingOf(RatingsOf(rt, sanitizeKey(projectTitle)))

\* the sign of x - y for two fractions
Sign(d) == IF d < 0 THEN -1 ELSE IF d > 0 THEN 1 ELSE 0

FracCompare(x, y) == Sign(x.num * y.den - y.num * x.den)

\* JSON.stringify of a rating map: its entries <<key, records>>, one after
\* the other.  (The order the entries are listed in has no effect on parse.)
KeyRank(rt, key) == 1 + Cardinality({k \in DOMAIN rt : LexCompare(k, key) < 0})

Entry(rt, key) == <<key, rt[key]>>

JSONstringify(rt) ==
    [n \in 1..Cardinality(DOMAIN rt) |->
        Entry(rt, CHOOSE k \in DOMAIN rt : KeyRank(rt, k) = n)]

\* JSON.parse of such a text: the object with one property per entry
JSONparse(text) ==
    [key \in {text[i][1] : i \in 1..Len(text)} |->
        text[CHOOSE i \in 1..Len(text) : text[i][1] = key][2]]

(***************************************************************************)
(* render(): the sort, then the page.                                      *)
(***************************************************************************)
SortCompare(mode, rt, a, b) ==
    CASE mode = "az" -> localeCompare(a.title, b.title)
      [] mode = "za" -> localeCompare(b.title, a.title)
      [] mode = "rating-high" ->
            FracCompare(getProjectRating(rt, b.title).average,
                        getProjectRating(rt, a.title).average)
      [] mode = "rating-low" ->
            FracCompare(getProjectRating(rt, a.title).average,
                        getProjectRating(rt, b.title).average)
      [] OTHER -> 0

\* Array.prototype.sort is stable: an element goes in front of the first
\* element it compares smaller than, behind every element it compares equal to.
\* (mutant) an element also goes in front of the elements it compares equal to
GoesInFront_OrEqual(c) == c <= 0

GoesInFront(c) == c < 0

RECURSIVE InsertSorted(_, _, _, _)
InsertSorted(x, sorted, mode, rt) ==
    IF sorted = <<>> THEN <<x>>
    ELSE IF GoesInFront(SortCompare(mode, rt, x, Head(sorted))) THEN <<x>> \o sorted
    ELSE <<Head(sorted)>> \o InsertSorted(x, Tail(sorted), mode, rt)

RECURSIVE InsertionSort(_, _, _, _)
InsertionSort(s, n, mode, rt) ==
    IF n = 0 THEN <<>>
    ELSE InsertSorted(s[n], InsertionSort(s, n - 1, mode, rt), mode, rt)

StableSort(s, mode, rt) == InsertionSort(s, Len(s), mode, rt)

Reverse(s) == [i \in 1..Len(s) |-> s[Len(s) + 1 - i]]

SortModes == {"default", "az", "za", "newest", "rating-high", "rating-low"}

ApplySort(filtered, sortMode, rt) ==
    IF sortMode \in {"az", "za", "rating-high", "rating-low"}
    THEN StableSort(filtered, sortMode, rt)
    ELSE IF sortMode = "newest" THEN Reverse(filtered)
    ELSE filtered

\* Math.ceil(n / s)
CeilDiv(n, s) == IF n % s = 0 THEN n \div s ELSE (n \div s) + 1

\* (mutant) slice with an inclusive end
Slice_InclusiveEnd(s, start, end) ==
    SubSeq(s, Min(start, Len(s)) + 1, Min(end + 1, Len(s)))

SliceFrom(len, start) == IF start < 0 THEN Max(len + start, 0) ELSE Min(start, len)

\* Array.prototype.slice(start, end)
Slice(s, start, end) ==
    SubSeq(s, SliceFrom(Len(s), start) + 1, SliceFrom(Len(s), end))

\* render, lines 442-459: the empty state and renderPagination
Display(filtered, srt, total, items) ==
    [visible |-> filtered, sorted |-> srt, totalPages |-> total,
     pageItems |-> items,
     pagination |-> IF Len(items) = 0 THEN 0 ELSE total,
     emptyState |-> (Len(items) = 0)]

PageStart(page) == (page - 1) * ITEMS_PER_PAGE

\* render, lines 411-414: the page
Paginate(filtered, srt, page) ==
    Display(filtered, srt, CeilDiv(Len(srt), ITEMS_PER_PAGE),
            Slice(srt, PageStart(page), PageStart(page) + ITEMS_PER_PAGE))

\* render, lines 391-409: the sort
SortAndPaginate(filtered, page, sortMode, rt) ==
    Paginate(filtered, ApplySort(filtered, sortMode, rt), page)

RenderResult(eng, page, sortMode, rt) ==
    SortAndPaginate(getVisibleProjects(setPage(eng, page)), page, sortMode, rt)

NotRendered ==
    [visible |-> <<>>, sorted |-> <<>>, totalPages |-> 0, pageItems |-> <<>>,
     pagination |-> 0, emptyState |-> FALSE]

\* (mutant) the sort reorders the array the engine holds
EngineAfterRender_Sorted(eng, page, sortMode, rt) ==
    [setPage(eng, page) EXCEPT !.projects = ApplySort(@, sortMode, rt)]

\* the engine after render: setPage; the sort is applied to the array
\* getVisibleProjects returned, not to the array the engine holds
EngineAfterRender(eng, page, sortMode, rt) == setPage(eng, page)

\* render() with the controller's state as it stands when render is called.
\* The skeleton cards' fade-out timers are not modelled: the cards replace
\* them at once.
Render(engine, page, sortMode, rt) ==
    IF engine = <<>>
    THEN UNCHANGED renderVars
    ELSE /\ visibilityEngine' = <<EngineAfterRender(engine[1], page, sortMode, rt)>>
         /\ rendered' = RenderResult(engine[1], page, sortMode, rt)
         /\ grid' = "cards"

(***************************************************************************)
(* fetchProjects: the records a call keeps.                                *)
(*   a call of fetchFromManifest: st is "manifest" (awaiting the manifest),*)
(*   "docs" (awaiting Promise.all) or "returned"; results[i] is the        *)
(*   promise of entry i; order lists the entries as their fetches settled. *)
(***************************************************************************)
NoData == Project(<<>>, "", "", <<>>, <<>>)
Pending == [st |-> "pending", data |-> NoData]
Failed == [st |-> "null", data |-> NoData]
Fetched(d) == [st |-> "ok", data |-> d]

NewCall ==
    [st |-> "manifest", results |-> <<>>, order |-> <<>>, isNull |-> FALSE,
     value |-> <<>>]
NullCall == [NewCall EXCEPT !.st = "returned", !.isNull = TRUE]

NewLoad == [pc |-> "manifest", calls |-> <<NewCall>>, projects |-> <<>>,
            legacy |-> "none"]

(***************************************************************************)
(* The handlers setupEventListeners registers, and goToPage.               *)
(***************************************************************************)
Queries == {<<>>, <<65>>, <<98>>, <<66, 97>>, <<122>>}   \* "", "A", "b", "Ba", "z"
Filters == {"all", "web", "game", "tool"}

\* (mutant) the search handler renders before it hands the query to the engine
SearchInputHandler_RenderFirst(q) ==
    /\ listeners > 0
    /\ searchInput' = q
    /\ currentPage' = 1
    /\ IF visibilityEngine = <<>> THEN UNCHANGED renderVars
       ELSE /\ visibilityEngine' = <<setSearchQuery(setPage(visibilityEngine[1], 1), q)>>
            /\ rendered' = RenderResult(visibilityEngine[1], 1, sortSelect, ratings)
            /\ grid' = "cards"
    /\ UNCHANGED <<serverVars, instance, allProjects, viewMode, initialized,
                   ratings, localStorage, modal, listeners, loads, lastDone,
                   sortSelect, activeFilter>>

\* 'input' on the search box
SearchInputHandler(q) ==
    /\ listeners > 0
    /\ searchInput' = q
    /\ currentPage' = 1
    /\ Render(IF visibilityEngine = <<>> THEN <<>>
              ELSE <<setSearchQuery(visibilityEngine[1], q)>>,
              1, sortSelect, ratings)
    /\ UNCHANGED <<serverVars, instance, allProjects, viewMode, initialized,
                   ratings, localStorage, modal, listeners, loads, lastDone,
                   sortSelect, activeFilter>>

\* 'change' on the sort select
SortChangeHandler(mode) ==
    /\ listeners > 0
    /\ sortSelect' = mode
    /\ currentPage' = 1
    /\ Render(visibilityEngine, 1, mode, ratings)
    /\ UNCHANGED <<serverVars, instance, allProjects, viewMode, initialized,
                   ratings, localStorage, modal, listeners, loads, lastDone,
                   activeFilter, searchInput>>

\* (mutant) the filter handler marks the button and never tells the engine
FilterClickHandler_NoSetCategory(filter) ==
    /\ listeners > 0
    /\ activeFilter' = filter
    /\ currentPage' = 1
    /\ Render(visibilityEngine, 1, sortSelect, ratings)
    /\ UNCHANGED <<serverVars, instance, allProjects, viewMode, initialized,
                   ratings, localStorage, modal, listeners, loads, lastDone,
                   sortSelect, searchInput>>

\* 'click' on a filter button
FilterClickHandler(filter) ==
    /\ listeners > 0
    /\ activeFilter' = filter
    /\ currentPage' = 1
    /\ Render(IF visibilityEngine = <<>> THEN <<>>
              ELSE <<setCategory(visibilityEngine[1], filter)>>,
              1, sortSelect, ratings)
    /\ UNCHANGED <<serverVars, instance, allProjects, viewMode, initialized,
                   ratings, localStorage, modal, listeners, loads, lastDone,
                   sortSelect, searchInput>>

setViewMode(mode) ==
    /\ listeners > 0
    /\ viewMode' = mode
    /\ Render(visibilityEngine, currentPage, sortSelect, ratings)
    /\ UNCHANGED <<serverVars, instance, allProjects, currentPage, initialized,
                   ratings, localStorage, modal, listeners, loads, lastDone,
                   sortSelect, activeFilter, searchInput>>

\* (mutant) the next button is enabled on the last page too
PageButtons_NextAlways(total, cur) ==
    IF total <= 1 THEN {}
    ELSE {i \in 1..total : i = 1 \/ i = total \/ (i >= cur - 2 /\ i <= cur + 2)}
         \cup (IF cur = 1 THEN {} ELSE {cur - 1})
         \cup {cur + 1}

\* the pages renderPagination(total) offers enabled buttons for
PageButtons(total, cur) ==
    IF total <= 1 THEN {}
    ELSE {i \in 1..total : i = 1 \/ i = total \/ (i >= cur - 2 /\ i <= cur + 2)}
         \cup (IF cur = 1 THEN {} ELSE {cur - 1})
         \cup (IF cur = total THEN {} ELSE {cur + 1})

goToPage(page) ==
    /\ instance
    /\ page \in PageButtons(rendered.pagination, currentPage)
    /\ currentPage' = page
    /\ Render(visibilityEngine, page, sortSelect, ratings)
    /\ UNCHANGED <<serverVars, instance, allProjects, viewMode, initialized,
                   ratings, localStorage, modal, listeners, loads, lastDone,
                   sortSelect, activeFilter, searchInput>>

SearchInput == \E q \in Queries : SearchInputHandler(q)
SortChange == \E mode \in SortModes : SortChangeHandler(mode)
FilterClick == \E filter \in Filters : FilterClickHandler(filter)
ViewClick == \E mode \in {"card", "list"} : setViewMode(mode)
PageClick == \E page \in 1..(rendered.pagination + 1) : goToPage(page)

(***************************************************************************)
(* The rating modal (showRatingModal) and submitRating.                    *)
(***************************************************************************)
MaxRatings == 1       \* ratings submitted in one behaviour

Stars == 1..5         \* the five .star spans
DataRating(star) == <<48 + star>>   \* data-rating="1" ... "5"

\* parseInt of a string of digits
RECURSIVE parseInt(_)
parseInt(str) ==
    IF str = <<>> THEN 0
    ELSE 10 * parseInt(SubSeq(str, 1, Len(str) - 1)) + (str[Len(str)] - 48)

\* String.prototype.trim, the white space being the space character
NonSpace(str) == {i \in 1..Len(str) : str[i] # 32}

trim(str) ==
    IF NonSpace(str) = {} THEN <<>>
    ELSE SubSeq(str, CHOOSE i \in NonSpace(str) : \A j \in NonSpace(str) : i <= j,
                     CHOOSE i \in NonSpace(str) : \A j \in NonSpace(str) : j <= i)

Reviews == {<<>>, <<32, 97, 32>>}   \* what the textarea holds: "", " a "

\* the records submitRating has pushed (their timestamp is not 0)
Pushed(rt) ==
    {e \in UNION {{<<key, i>> : i \in 1..Len(rt[key])} : key \in DOMAIN rt} :
        rt[e[1]][e[2]].timestamp # 0}

\* Date.now(): the clock has advanced since the last rating was pushed
Now(rt) == Cardinality(Pushed(rt)) + 1

RatingRecord(rating, review, now) ==
    [rating |-> rating, review |-> review, timestamp |-> now]

\* (mutant) the new record goes in front
Push_InFront(rt, key, record) ==
    IF key \in DOMAIN rt THEN [rt EXCEPT ![key] = <<record>> \o @]
    ELSE rt @@ (key :> <<record>>)

\* lines 331-339: this.ratings[key] = [] if absent, then push
Push(rt, key, record) ==
    IF key \in DOMAIN rt THEN [rt EXCEPT ![key] = Append(@, record)]
    ELSE rt @@ (key :> <<record>>)

\* this.ratings after submitRating(projectTitle, rating, review)
submitRating(rt, projectTitle, rating, review) ==
    Push(rt, sanitizeKey(projectTitle), RatingRecord(rating, review, Now(rt)))

\* (mutant) saveRatings writes the empty object
saveRatings_Empty(rt) == <<JSONstringify(<<>>)>>

\* what saveRatings leaves in localStorage
saveRatings(rt) == <<JSONstringify(rt)>>

\* the rating button of a card of the grid
ShowRatingModal(project) ==
    /\ instance
    /\ modal = <<>>
    /\ Cardinality(Pushed(ratings)) < MaxRatings
    /\ grid = "cards"
    /\ viewMode = "card"
    /\ \E i \in 1..Len(rendered.pageItems) : rendered.pageItems[i] = project
    /\ modal' = <<[title |-> project.title, selectedRating |-> 0]>>
    /\ UNCHANGED <<serverVars, instance, allProjects, viewMode, currentPage,
                   initialized, ratings, localStorage, listeners, loads, lastDone,
                   sortSelect, activeFilter, renderVars, searchInput>>

\* 'click' on a star
StarClickHandler(star) ==
    /\ modal # <<>>
    /\ modal' = <<[modal[1] EXCEPT !.selectedRating = parseInt(DataRating(star))]>>
    /\ UNCHANGED <<serverVars, instance, allProjects, viewMode, currentPage,
                   initialized, ratings, localStorage, listeners, loads, lastDone,
                   sortSelect, activeFilter, renderVars, searchInput>>

\* 'click' on the close button or on the overlay
CloseModal ==
    /\ modal # <<>>
    /\ modal' = <<>>
    /\ UNCHANGED <<serverVars, instance, allProjects, viewMode, currentPage,
                   initialized, ratings, localStorage, listeners, loads, lastDone,
                   sortSelect, activeFilter, renderVars, searchInput>>

\* (mutant) Submit does not look at the stars
CanSubmit_Always(selectedRating) == TRUE

\* if (selectedRating > 0)
CanSubmit(selectedRating) == selectedRating > 0

\* submitRating, modal.remove(), render() with the ratings as submitted
Submitted(rt) ==
    /\ ratings' = rt
    /\ localStorage' = saveRatings(rt)
    /\ modal' = <<>>
    /\ Render(visibilityEngine, currentPage, sortSelect, rt)
    /\ UNCHANGED <<serverVars, instance, allProjects, viewMode, currentPage,
                   initialized, listeners, loads, lastDone, sortSelect,
                   activeFilter, searchInput>>

\* 'click' on Submit Rating, the textarea holding text
SubmitClickHandler(text) ==
    /\ modal # <<>>
    /\ IF CanSubmit(modal[1].selectedRating)
       THEN Submitted(submitRating(ratings, modal[1].title,
                                   modal[1].selectedRating, trim(text)))
       ELSE UNCHANGED vars

RateClick == \E i \in 1..ITEMS_PER_PAGE :
    /\ i <= Len(rendered.pageItems)
    /\ ShowRatingModal(rendered.pageItems[i])
StarClick == \E star \in Stars : StarClickHandler(star)
SubmitClick == \E text \in Reviews : SubmitClickHandler(text)

(***************************************************************************)
(* The view: the controller after a load that took its records from the    *)
(* legacy catalog, under the user's events.                                *)
(***************************************************************************)
ValidPool == {PAb, PaB, Pb, Pc}

Deduplicated(s) ==
    \A i, j \in 1..Len(s) :
        i # j => toLowerCase(s[i].title) # toLowerCase(s[j].title)

SmallStores == {s \in SeqsUpTo(ValidPool, MaxStore) : Deduplicated(s)}

\* n records "PA", "PB", ... of alternating categories
BigStore(n) ==
    [i \in 1..n |->
        Project(<<80, 64 + i>>, "l", IF i % 2 = 0 THEN "game" ELSE "web",
                IF i % 3 = 0 THEN <<98, 97>> ELSE <<>>, <<>>)]

BigStores == {BigStore(n) : n \in 0..MaxBig}

Rating(r) == [rating |-> r, review |-> <<>>, timestamp |-> 0]

StoredRatings ==
    { <<>>,
      (<<97, 98>> :> <<Rating(5)>>) @@ (<<98>> :> <<Rating(3), Rating(4)>>)
        @@ (<<112, 98>> :> <<Rating(2)>>) }

Loaded(store, rt) ==
    /\ manifestFile = [ok |-> FALSE, projects |-> <<>>]
    /\ legacyFile = [isArray |-> TRUE, records |-> store]
    /\ instance = TRUE
    /\ allProjects = store
    /\ visibilityEngine = <<[NewEngine(store) EXCEPT !.itemsPerPage = ITEMS_PER_PAGE]>>
    /\ viewMode = "card"
    /\ currentPage = 1
    /\ initialized = TRUE
    /\ ratings = rt
    /\ localStorage = IF rt = <<>> THEN <<>> ELSE <<JSONstringify(rt)>>
    /\ modal = <<>>
    /\ listeners = 1
    /\ loads = << [pc |-> "done", calls |-> <<NullCall, NullCall>>,
                   projects |-> store, legacy |-> "ok"] >>
    /\ lastDone = 1
    /\ sortSelect = "default"
    /\ activeFilter = "all"
    /\ searchInput = <<>>
    /\ grid = "cards"
    /\ rendered = RenderResult(NewEngine(store), 1, "default", rt)

\* the small stores, and one store of two pages
ViewStores == SmallStores \cup {BigStore(ITEMS_PER_PAGE + 1)}

ViewInit == \E store \in ViewStores, rt \in StoredRatings : Loaded(store, rt)

ViewNext == SearchInput \/ SortChange \/ FilterClick \/ ViewClick \/ PageClick

SpecView == ViewInit /\ [][ViewNext]_vars

(***************************************************************************)
(* Paging: the same controller over stores of several pages.               *)
(***************************************************************************)
PageInit == \E store \in BigStores : Loaded(store, <<>>)

PageNext ==
    \/ PageClick
    \/ FilterClick
    \/ \E mode \in {"default", "newest"} : SortChangeHandler(mode)
    \/ \E q \in {<<>>, <<98>>} : SearchInputHandler(q)

SpecPage == PageInit /\ [][PageNext]_vars

(***************************************************************************)
(* Rating: the same controller with the rating modal.                      *)
(***************************************************************************)
RatingStores == {<<Pc, Pb>>, <<PAb, Pc>>, <<PSpace, PDash>>}

RatingInit == \E store \in RatingStores, rt \in StoredRatings : Loaded(store, rt)

RatingNext ==
    \/ RateClick
    \/ StarClick
    \/ SubmitClick
    \/ CloseModal
    \/ SortChange
    \/ ViewClick

SpecRating == RatingInit /\ [][RatingNext]_vars

(***************************************************************************)
(* A session: every kind of event the page offers, over a store of two     *)
(* pages.                                                                  *)
(***************************************************************************)
SessionInit ==
    \E rt \in StoredRatings \ {<<>>} : Loaded(BigStore(ITEMS_PER_PAGE + 1), rt)

SessionNext ==
    \/ \E q \in {<<>>, <<98>>} : SearchInputHandler(q)
    \/ \E filter \in {"all", "game"} : FilterClickHandler(filter)
    \/ SortChange
    \/ ViewClick
    \/ PageClick
    \/ rendered.pageItems # <<>> /\ ShowRatingModal(rendered.pageItems[1])
    \/ StarClickHandler(5)
    \/ SubmitClickHandler(<<>>)
    \/ CloseModal

SpecSession == SessionInit /\ [][SessionNext]_vars


(***************************************************************************)
(* The load.  The server's files are fixed for a behaviour; each fetch on  *)
(* its own may fail (network error, non-OK response, parse error).         *)
(***************************************************************************)
DocAb == [PAb EXCEPT !.link = "own"]
DocaB == [PaB EXCEPT !.link = ""]
DocNoTitle == [PNoTitle EXCEPT !.link = ""]

\* the per-project documents: ok = the file exists and parses to an object
DocAt(path) ==
    CASE path = "p1" -> [ok |-> TRUE, data |-> DocAb]
      [] path = "p2" -> [ok |-> TRUE, data |-> DocaB]
      [] path = "p3" -> [ok |-> TRUE, data |-> DocNoTitle]
      [] OTHER -> [ok |-> FALSE, data |-> NoData]

ManifestEntries ==
    { [path |-> "p1", link |-> "m1"], [path |-> "p2", link |-> "m2"],
      [path |-> "p3", link |-> "m3"], [path |-> "p4", link |-> "m4"],
      [path |-> "p2", link |-> ""] }

NoManifest == [ok |-> FALSE, projects |-> <<>>]
ManifestOf(entries) == [ok |-> TRUE, projects |-> entries]
ManifestFiles ==
    {NoManifest} \cup {ManifestOf(es) : es \in SeqsUpTo(ManifestEntries, MaxManifest)}

LegacyPool == {PAb, PaB, PNoTitle, PNoLink}

\* a catalog that parses but is no array (an object, null)
NotAnArray == [isArray |-> FALSE, records |-> <<>>]
CatalogOf(records) == [isArray |-> TRUE, records |-> records]
LegacyFiles ==
    {NotAnArray} \cup {CatalogOf(rs) : rs \in SeqsUpTo(LegacyPool, MaxLegacy)}

\* every manifest beside one catalog, and every catalog beside a missing, an
\* empty and a one-entry manifest
FilePairs ==
    {<<m, CatalogOf(<<Pc, PAb>>)>> : m \in ManifestFiles}
    \cup {<<m, l>> : m \in {NoManifest, ManifestOf(<<>>),
                            ManifestOf(<< [path |-> "p1", link |-> "m1"] >>)},
                     l \in LegacyFiles}

\* (mutant) the deduplication keys on the title as written
DedupKey_AsWritten(project) == project.title

DedupKey(project) == toLowerCase(project.title)

\* (mutant) only the title is required
Missing_TitleOnly(project) == project.title = <<>>

\* !project.title || !project.link
Missing(project) == project.title = <<>> \/ project.link = ""

\* the filter of lines 87-94, record by record, with its `seen` set
RECURSIVE DedupFilter(_, _, _)
DedupFilter(rest, seen, kept) ==
    IF rest = <<>> THEN kept
    ELSE IF Missing(Head(rest)) \/ DedupKey(Head(rest)) \in seen
         THEN DedupFilter(Tail(rest), seen, kept)
         ELSE DedupFilter(Tail(rest), seen \cup {DedupKey(Head(rest))},
                          Append(kept, Head(rest)))

Deduplicate(projects) == DedupFilter(projects, {}, <<>>)

\* loadRatings
LoadedRatings(stored) == IF stored = <<>> THEN <<>> ELSE JSONparse(stored[1])

\* (mutant) the constructor initialises the state whether or not an instance exists
Constructed_Afresh(existing, current, fresh) == fresh

\* lines 10-30: a field after new ProjectManager(), the instance's own when
\* one exists already
Constructed(existing, current, fresh) == IF existing THEN current ELSE fresh

\* the 'componentLoaded' listener for component 'projects':
\* new ProjectManager(), then init() up to its await
ProjectsLoaded ==
    /\ ~Constructed(instance, initialized, FALSE)
    /\ instance' = TRUE
    /\ allProjects' = Constructed(instance, allProjects, <<>>)
    /\ visibilityEngine' = Constructed(instance, visibilityEngine, <<>>)
    /\ viewMode' = Constructed(instance, viewMode, "card")
    /\ currentPage' = Constructed(instance, currentPage, 1)
    /\ initialized' = Constructed(instance, initialized, FALSE)
    /\ ratings' = LoadedRatings(localStorage)
    /\ listeners' = listeners + 1
    /\ grid' = "skeleton"
    /\ loads' = Append(loads, NewLoad)
    /\ UNCHANGED <<serverVars, localStorage, modal, lastDone, sortSelect, activeFilter,
                   rendered, searchInput>>

\* components.js announces the component once: no load is in progress
\* when it does.
ComponentLoaded == loads = <<>> /\ ProjectsLoaded

CurrentCall(load) == load.calls[Len(load.calls)]

SetCall(load, call) == [load EXCEPT !.calls[Len(load.calls)] = call]

\* lines 86-104 for load f, then init's last lines
Finish(f, load, projects) ==
    /\ allProjects' = Deduplicate(projects)
    /\ Render(<<[NewEngine(Deduplicate(projects)) EXCEPT !.itemsPerPage = ITEMS_PER_PAGE]>>,
              currentPage, sortSelect, ratings)
    /\ loads' = [loads EXCEPT ![f] = [load EXCEPT !.pc = "done", !.projects = projects]]
    /\ lastDone' = f
    /\ initialized' = TRUE
    /\ UNCHANGED <<serverVars, instance, viewMode, currentPage, ratings,
                   localStorage, modal, listeners, sortSelect, activeFilter, searchInput>>

\* (mutant) the legacy catalog is asked for whatever the manifest gave
NeedsFallback_Always(isNull, value) == TRUE

\* !projects || projects.length === 0
NeedsFallback(isNull, value) == isNull \/ Len(value) = 0

\* fetchProjects of load f once a call of fetchFromManifest has returned
AfterManifest(f, load, isNull, value) ==
    IF Len(load.calls) = 1
    THEN /\ loads' = [loads EXCEPT ![f] = [load EXCEPT !.calls = Append(load.calls, NewCall)]]
         /\ UNCHANGED <<serverVars, instance, allProjects, viewMode, currentPage,
                        initialized, ratings, localStorage, modal, listeners, lastDone,
                        sortSelect, activeFilter, renderVars, searchInput>>
    ELSE IF NeedsFallback(isNull, value)
    THEN /\ loads' = [loads EXCEPT ![f] = [load EXCEPT !.pc = "legacy", !.legacy = "asked"]]
         /\ UNCHANGED <<serverVars, instance, allProjects, viewMode, currentPage,
                        initialized, ratings, localStorage, modal, listeners, lastDone,
                        sortSelect, activeFilter, renderVars, searchInput>>
    ELSE Finish(f, load, value)

Returned(call, isNull, value) ==
    [call EXCEPT !.st = "returned", !.isNull = isNull, !.value = value]

\* the fetch of ./project-manifest.json of load f settles
ManifestSettles(f, netOk) ==
    /\ loads[f].pc = "manifest"
    /\ CurrentCall(loads[f]).st = "manifest"
    /\ IF ~(netOk /\ manifestFile.ok)
       THEN AfterManifest(f, SetCall(loads[f], Returned(CurrentCall(loads[f]), TRUE, <<>>)),
                          TRUE, <<>>)
       ELSE IF manifestFile.projects = <<>>
       THEN AfterManifest(f, SetCall(loads[f], Returned(CurrentCall(loads[f]), FALSE, <<>>)),
                          FALSE, <<>>)
       ELSE /\ loads' = [loads EXCEPT ![f] =
                  SetCall(loads[f],
                          [CurrentCall(loads[f]) EXCEPT
                              !.st = "docs",
                              !.results = [i \in 1..Len(manifestFile.projects) |-> Pending]])]
            /\ UNCHANGED <<serverVars, instance, allProjects, viewMode, currentPage,
                           initialized, ratings, localStorage, modal, listeners, lastDone,
                           sortSelect, activeFilter, renderVars, searchInput>>

\* (mutant) the document keeps the link it carries
DocResult_OwnLink(entry, netOk) ==
    IF netOk /\ DocAt(entry.path).ok THEN Fetched(DocAt(entry.path).data) ELSE Failed

\* lines 130-136 for one entry
DocResult(entry, netOk) ==
    IF netOk /\ DocAt(entry.path).ok
    THEN Fetched([DocAt(entry.path).data EXCEPT !.link = entry.link])
    ELSE Failed

NonNull(r) == r.st = "ok"

DataOf(results) == [i \in 1..Len(results) |-> results[i].data]

\* (mutant) the results are collected as the fetches settle
JoinResults_AsSettled(call) ==
    DataOf(SelectSeq([k \in 1..Len(call.order) |-> call.results[call.order[k]]], NonNull))

\* lines 143-144: Promise.all, then the filter
JoinResults(call) == DataOf(SelectSeq(call.results, NonNull))

AllSettled(call) == \A i \in 1..Len(call.results) : call.results[i].st # "pending"

DocSettled(call, i, netOk) ==
    [call EXCEPT !.results[i] = DocResult(manifestFile.projects[i], netOk),
                 !.order = Append(call.order, i)]

AfterDoc(f, call) ==
    IF AllSettled(call)
    THEN AfterManifest(f, SetCall(loads[f], Returned(call, FALSE, JoinResults(call))),
                       FALSE, JoinResults(call))
    ELSE /\ loads' = [loads EXCEPT ![f] = SetCall(loads[f], call)]
         /\ UNCHANGED <<serverVars, instance, allProjects, viewMode, currentPage,
                        initialized, ratings, localStorage, modal, listeners, lastDone,
                        sortSelect, activeFilter, renderVars, searchInput>>

\* the fetch of entry i's project.json of load f settles
DocSettles(f, i, netOk) ==
    /\ loads[f].pc = "manifest"
    /\ CurrentCall(loads[f]).st = "docs"
    /\ i \in 1..Len(CurrentCall(loads[f]).results)
    /\ CurrentCall(loads[f]).results[i].st = "pending"
    /\ AfterDoc(f, DocSettled(CurrentCall(loads[f]), i, netOk))

\* (mutant) fetchFromLegacyJson loses the parsed catalog
LegacyRecords_Lost(file) == <<>>

\* line 159
LegacyRecords(file) == file.records

\* the fetch of ./projects.json of load f settles
LegacySettles(f, netOk) ==
    /\ loads[f].pc = "legacy"
    /\ IF ~netOk
       THEN Finish(f, [loads[f] EXCEPT !.legacy = "failed"], <<>>)
       ELSE IF legacyFile.isArray
       THEN Finish(f, [loads[f] EXCEPT !.legacy = "ok"], LegacyRecords(legacyFile))
       ELSE \* projects.filter is not a function: the catch of lines 106-112
            /\ grid' = "error"
            /\ loads' = [loads EXCEPT ![f] = [@ EXCEPT !.pc = "failed", !.legacy = "ok"]]
            /\ initialized' = TRUE
            /\ UNCHANGED <<serverVars, instance, allProjects, visibilityEngine,
                           viewMode, currentPage, ratings, localStorage, modal, listeners,
                           lastDone, sortSelect, activeFilter, rendered, searchInput>>

Init ==
    /\ \E pair \in FilePairs : manifestFile = pair[1] /\ legacyFile = pair[2]
    /\ localStorage \in {<<JSONstringify(rt)>> : rt \in StoredRatings}
    /\ modal = <<>>
    /\ instance = FALSE
    /\ allProjects = <<>>
    /\ visibilityEngine = <<>>
    /\ viewMode = "card"
    /\ currentPage = 1
    /\ initialized = FALSE
    /\ ratings = <<>>
    /\ listeners = 0
    /\ loads = <<>>
    /\ lastDone = 0
    /\ sortSelect = "default"
    /\ activeFilter = "all"
    /\ searchInput = <<>>
    /\ grid = "blank"
    /\ rendered = NotRendered

ManifestResponse == \E f \in 1..Len(loads), netOk \in BOOLEAN : ManifestSettles(f, netOk)
DocResponse ==
    \E f \in 1..Len(loads), i \in 1..(MaxManifest + 1), netOk \in BOOLEAN :
        DocSettles(f, i, netOk)
LegacyResponse == \E f \in 1..Len(loads), netOk \in BOOLEAN : LegacySettles(f, netOk)

Next == ComponentLoaded \/ ManifestResponse \/ DocResponse \/ LegacyResponse

Spec == Init /\ [][Next]_vars

(***************************************************************************)
(* The component announced more than once, the later events while a load   *)
(* is still in progress; the view buttons work as soon as init has         *)
(* registered the handlers.                                                *)
(***************************************************************************)
MaxEvents == 2        \* 'componentLoaded' events for component 'projects'

EventFiles ==
    { <<ManifestOf(<< [path |-> "p1", link |-> "m1"] >>), CatalogOf(<<Pc>>)>>,
      <<NoManifest, CatalogOf(<<Pc, Pb>>)>> }

EventsInit ==
    /\ \E pair \in EventFiles : manifestFile = pair[1] /\ legacyFile = pair[2]
    /\ localStorage = <<JSONstringify(<<>>)>>
    /\ instance = FALSE
    /\ allProjects = <<>>
    /\ visibilityEngine = <<>>
    /\ viewMode = "card"
    /\ currentPage = 1
    /\ initialized = FALSE
    /\ ratings = <<>>
    /\ modal = <<>>
    /\ listeners = 0
    /\ loads = <<>>
    /\ lastDone = 0
    /\ sortSelect = "default"
    /\ activeFilter = "all"
    /\ searchInput = <<>>
    /\ grid = "blank"
    /\ rendered = NotRendered

ComponentLoadedAgain == Len(loads) < MaxEvents /\ ProjectsLoaded

EventsNext ==
    \/ ComponentLoadedAgain
    \/ ManifestResponse
    \/ DocResponse
    \/ LegacyResponse
    \/ ViewClick

SpecEvents == EventsInit /\ [][EventsNext]_vars

(***************************************************************************)
(* Claims about the view.                                                  *)
(***************************************************************************)
Engine == visibilityEngine[1]

\* q occurs in s, letters compared without regard to case
OccursIn(q, s) ==
    \E k \in 0..Len(s) :
        /\ k + Len(q) <= Len(s)
        /\ \A j \in 1..Len(q) : LowerChar(s[k + j]) = LowerChar(q[j])

\* the index of record x in the (deduplicated) store
StoreIndex(x) == CHOOSE k \in 1..Len(allProjects) : allProjects[k] = x

\* C1: once a filter button with category c has been clicked, the engine's
\* category is c and getVisibleProjects() returns only records of category
\* c; with c = "all" and an empty query it returns the whole store.
C1_CategoryFilter ==
    visibilityEngine # <<>> =>
        /\ Engine.category = activeFilter
        /\ activeFilter # "all" =>
              \A i \in 1..Len(rendered.visible) : rendered.visible[i].category = activeFilter
        /\ (activeFilter = "all" /\ Engine.searchQuery = <<>>) =>
              rendered.visible = allProjects

C1_Witness ==
    /\ activeFilter = "web"
    /\ Len(rendered.visible) = 1
    /\ Len(allProjects) = 2

\* C2: every record getVisibleProjects() returns contains the search query,
\* case-insensitively, in its title, its description or one of its tech
\* entries; with the empty query the result is the records of the category.
C2_SearchFilter ==
    visibilityEngine # <<>> =>
        /\ \A i \in 1..Len(rendered.visible) :
              \/ OccursIn(searchInput, rendered.visible[i].title)
              \/ OccursIn(searchInput, rendered.visible[i].description)
              \/ \E t \in 1..Len(rendered.visible[i].tech) :
                    OccursIn(searchInput, rendered.visible[i].tech[t])
        /\ searchInput = <<>> =>
              /\ \A k \in 1..Len(allProjects) :
                    (activeFilter = "all" \/ allProjects[k].category = activeFilter)
                        => \E i \in 1..Len(rendered.visible) : rendered.visible[i] = allProjects[k]
              /\ Len(rendered.visible) =
                    Cardinality({k \in 1..Len(allProjects) :
                        activeFilter = "all" \/ allProjects[k].category = activeFilter})

\* the query "Ba" found in a tech entry "Ba" of a record whose title lacks it
C2_Witness ==
    /\ searchInput = <<66, 97>>
    /\ Len(rendered.visible) = 1
    /\ rendered.visible[1].title = <<98>>
    /\ Len(allProjects) = 2

\* C3: getVisibleProjects() returns a subsequence of the store: its records
\* are records of the store, in the store's relative order.
C3_StableFilter ==
    visibilityEngine # <<>> =>
        /\ \A i \in 1..Len(rendered.visible) :
              \E k \in 1..Len(allProjects) : allProjects[k] = rendered.visible[i]
        /\ \A i, j \in 1..Len(rendered.visible) :
              i < j => StoreIndex(rendered.visible[i]) < StoreIndex(rendered.visible[j])

C3_Witness ==
    /\ Len(rendered.visible) = 2
    /\ searchInput # <<>>
    /\ activeFilter # "all"

\* C4: page p of a sequence of N records shows the records at positions
\* [(p-1)*S, min(N, p*S)), and the page count is ceil(N/S) (0 when N = 0);
\* 25 records give 3 pages, 12 records on page 1 and 1 record on page 3.
C4_Pagination ==
    visibilityEngine # <<>> =>
        LET N == Len(rendered.sorted)
            S == ITEMS_PER_PAGE
            p == currentPage
        IN  /\ Len(rendered.pageItems) = Max(0, Min(N, p * S) - (p - 1) * S)
            /\ \A i \in 1..Len(rendered.pageItems) : rendered.pageItems[i] = rendered.sorted[(p - 1) * S + i]
            /\ rendered.totalPages >= 0
            /\ rendered.totalPages * S >= N
            /\ (rendered.totalPages - 1) * S < N
            /\ N = 0 => rendered.totalPages = 0
            /\ N = 25 =>
                  /\ rendered.totalPages = 3
                  /\ p = 1 => Len(rendered.pageItems) = 12
                  /\ p = 3 => Len(rendered.pageItems) = 1

C4_Witness ==
    /\ Len(rendered.sorted) = 25
    /\ currentPage = 3
    /\ Len(rendered.pageItems) = 1
    /\ rendered.totalPages = 3

(***************************************************************************)
(* Claims about the load.                                                  *)
(***************************************************************************)
\* the fetchProjects call whose result the store holds, and its `projects`
LastLoad == loads[lastDone]
Input == LastLoad.projects

HasTitleAndLink(p) == p.title # <<>> /\ p.link # ""

SameTitle(a, b) ==
    /\ Len(a) = Len(b)
    /\ \A i \in 1..Len(a) : LowerChar(a[i]) = LowerChar(b[i])

\* the records of input that a first-wins deduplication keeps: those with a
\* title and a link that no earlier record with a title and a link matches
KeptIndices(input) ==
    {i \in 1..Len(input) :
        /\ HasTitleAndLink(input[i])
        /\ \A j \in 1..(i - 1) :
              HasTitleAndLink(input[j]) => ~SameTitle(input[j].title, input[i].title)}

\* store is input's kept records, in input's order
IsDedupOf(store, input) ==
    /\ Len(store) = Cardinality(KeptIndices(input))
    /\ \A i \in KeptIndices(input) :
          store[Cardinality({j \in KeptIndices(input) : j <= i})] = input[i]

NoTwoShareATitle ==
    \A i, j \in 1..Len(allProjects) :
        i # j => ~SameTitle(allProjects[i].title, allProjects[j].title)

\* C5 as claimed: no two records of the store share a lower-cased title, and
\* of several input records with the same lower-cased title the one in the
\* store is the one that occurs first in the input.
C5_FirstInInputRetained ==
    /\ NoTwoShareATitle
    /\ lastDone # 0 =>
          \A k \in 1..Len(allProjects) : \A h \in 1..Len(Input) :
              SameTitle(Input[h].title, allProjects[k].title)
                  => \E i \in 1..h : Input[i] = allProjects[k]

\* C5 (amended): no two records of the store share a lower-cased title, and
\* of several input records with the same lower-cased title the first one
\* that has a title and a link is the one in the store.
C5_Dedup ==
    /\ NoTwoShareATitle
    /\ lastDone # 0 =>
          /\ \A k \in 1..Len(allProjects) :
                \E i \in KeptIndices(Input) : Input[i] = allProjects[k]
          /\ \A i \in KeptIndices(Input) :
                \E k \in 1..Len(allProjects) : allProjects[k] = Input[i]

\* "Ab" then "aB" in the catalog: "Ab" is kept
C5_Witness ==
    /\ lastDone # 0
    /\ Len(Input) = 2
    /\ HasTitleAndLink(Input[1])
    /\ HasTitleAndLink(Input[2])
    /\ SameTitle(Input[1].title, Input[2].title)
    /\ Input[1] # Input[2]
    /\ allProjects = <<Input[1]>>

\* C6: no record of the store lacks a title or a link, whether the manifest
\* or the legacy catalog supplied the records.
C6_MandatoryFields ==
    \A k \in 1..Len(allProjects) :
        allProjects[k].title # <<>> /\ allProjects[k].link # ""

\* a manifest entry without link beside a good one: only the good one is kept
C6_Witness ==
    /\ lastDone # 0
    /\ LastLoad.legacy = "none"
    /\ Len(Input) = 2
    /\ \E i \in 1..2 : Input[i].link = "" /\ Input[i].title # <<>>
    /\ Len(allProjects) = 1

\* C7: when the manifest fetch failed and the legacy catalog was fetched,
\* the store is the catalog's records with a title and a link, deduplicated,
\* in catalog order.
C7_LegacyFallback ==
    (/\ lastDone # 0
     /\ LastLoad.pc = "done"
     /\ LastLoad.calls[2].isNull
     /\ LastLoad.legacy = "ok")
        => IsDedupOf(allProjects, legacyFile.records)

C7_Witness ==
    /\ lastDone # 0
    /\ LastLoad.pc = "done"
    /\ LastLoad.calls[2].isNull
    /\ LastLoad.legacy = "ok"
    /\ Len(legacyFile.records) = 2
    /\ Len(allProjects) = 1

CallDone(call) == call.st = "returned" /\ AllSettled(call)

\* C8: the legacy catalog is requested only once the manifest-based fetch
\* has settled with null or with no record; a load whose manifest-based
\* fetch yields a record never requests it, and its store is built from the
\* manifest's records alone.
C8_FallbackOnlyWhenEmpty ==
    \A f \in 1..Len(loads) :
        /\ loads[f].legacy # "none" =>
              /\ Len(loads[f].calls) = 2
              /\ CallDone(loads[f].calls[1])
              /\ CallDone(loads[f].calls[2])
              /\ loads[f].calls[2].isNull \/ loads[f].calls[2].value = <<>>
        /\ (/\ Len(loads[f].calls) = 2
            /\ loads[f].calls[2].st = "returned"
            /\ ~loads[f].calls[2].isNull
            /\ loads[f].calls[2].value # <<>>) =>
              /\ loads[f].legacy = "none"
              /\ loads[f].pc = "done"
              /\ loads[f].projects = loads[f].calls[2].value
              /\ lastDone = f => IsDedupOf(allProjects, loads[f].calls[2].value)

\* every per-project fetch failed: the catalog is asked for, and only then
C8_Witness ==
    \E f \in 1..Len(loads) :
        /\ loads[f].legacy = "asked"
        /\ ~loads[f].calls[2].isNull
        /\ Len(loads[f].calls[2].results) = 2
        /\ ~loads[f].calls[1].isNull
        /\ Len(loads[f].calls[1].value) = 2

\* the entries of the manifest whose project.json was fetched
FetchedEntries(call) == {i \in 1..Len(call.results) : call.results[i].st = "ok"}

\* the document of manifest entry i, as it is loaded
LoadedDocument(i) ==
    [DocAt(manifestFile.projects[i].path).data EXCEPT
        !.link = manifestFile.projects[i].link]

\* C9: a per-project fetch that fails does not abort fetchFromManifest; what
\* the call returns is the documents whose fetch succeeded, in manifest
\* order, whatever the order the fetches settled in.
C9_JoinInManifestOrder ==
    \A f \in 1..Len(loads) : \A k \in 1..Len(loads[f].calls) :
        loads[f].calls[k].st = "returned" =>
            /\ loads[f].calls[k].isNull => loads[f].calls[k].results = <<>>
            /\ ~loads[f].calls[k].isNull =>
                  /\ Len(loads[f].calls[k].value) =
                        Cardinality(FetchedEntries(loads[f].calls[k]))
                  /\ \A i \in FetchedEntries(loads[f].calls[k]) :
                        /\ DocAt(manifestFile.projects[i].path).ok
                        /\ loads[f].calls[k].value[
                              Cardinality({j \in FetchedEntries(loads[f].calls[k]) : j <= i})]
                           = LoadedDocument(i)

\* one call whose second entry settled first, both fetched; another call of
\* the same load in which one of the two fetches failed
C9_Witness ==
    \E f \in 1..Len(loads) :
        /\ Len(loads[f].calls) = 2
        /\ loads[f].calls[1].st = "returned"
        /\ loads[f].calls[1].order = <<2, 1>>
        /\ Len(loads[f].calls[1].value) = 2
        /\ loads[f].calls[1].value[1] # loads[f].calls[1].value[2]
        /\ loads[f].calls[2].st = "returned"
        /\ Len(loads[f].calls[2].results) = 2
        /\ loads[f].calls[2].results[1].st = "null"
        /\ Len(loads[f].calls[2].value) = 1

\* C10 as claimed: when the manifest-based fetch gives nothing and the legacy
\* catalog fails or is empty, the load ends with the error message in the grid.
C10_ErrorMessageShown ==
    \A f \in 1..Len(loads) :
        (/\ loads[f].pc \in {"done", "failed"}
         /\ loads[f].legacy = "failed"
               \/ (loads[f].legacy = "ok" /\ legacyFile.isArray
                   /\ legacyFile.records = <<>>))
            => grid = "error"

(***************************************************************************)
(* Claims about the ratings.                                               *)
(***************************************************************************)
\* every sequence of old is an unchanged prefix of the sequence new holds
\* under the same key
ExtendsRatings(old, new) ==
    \A key \in DOMAIN old :
        /\ key \in DOMAIN new
        /\ Len(old[key]) <= Len(new[key])
        /\ SubSeq(new[key], 1, Len(old[key])) = old[key]

\* C11: the ratings of every key are append-only: whatever step the page
\* takes, a key's sequence of rating records, in memory and in localStorage,
\* is afterwards the sequence it was, possibly with records appended.
C11_AppendOnly ==
    [][/\ ExtendsRatings(ratings, ratings')
       /\ ExtendsRatings(LoadedRatings(localStorage), LoadedRatings(localStorage'))]_vars

\* a third rating was submitted for "b", which had [3, 4]
C11_Witness ==
    /\ <<98>> \in DOMAIN ratings
    /\ Len(ratings[<<98>>]) = 3
    /\ ratings[<<98>>][1] = Rating(3)
    /\ ratings[<<98>>][2] = Rating(4)
    /\ ratings[<<98>>][3].timestamp # 0

\* C12: once a rating has been submitted, localStorage holds the whole
\* in-memory map: what a later loadRatings reads is exactly this.ratings,
\* the ratings there were before and every rating submitted since.
C12_PersistedIsMemory ==
    /\ LoadedRatings(localStorage) = ratings
    /\ Pushed(ratings) # {} => localStorage = <<JSONstringify(ratings)>>

\* a first rating for "C" beside the three keys that were stored
C12_Witness ==
    /\ <<99>> \in DOMAIN ratings
    /\ ratings[<<99>>][1].timestamp # 0
    /\ localStorage # <<>>
    /\ Len(localStorage[1]) = 4

\* the key of a title: as long as the title, each letter in lower case, each
\* digit as it is, every other character replaced by "_"
IsKeyOf(key, title) ==
    /\ Len(key) = Len(title)
    /\ \A i \in 1..Len(title) :
          key[i] = (IF title[i] \in 65..90 THEN title[i] + 32
                    ELSE IF title[i] \in (48..57) \cup (97..122) THEN title[i]
                    ELSE 95)

\* the records stored for a title
StoredFor(title) ==
    IF \E key \in DOMAIN ratings : IsKeyOf(key, title)
    THEN ratings[CHOOSE key \in DOMAIN ratings : IsKeyOf(key, title)]
    ELSE <<>>

StarsGiven(records, star) ==
    star * Cardinality({i \in 1..Len(records) : records[i].rating = star})

TotalOf(records) ==
    StarsGiven(records, 1) + StarsGiven(records, 2) + StarsGiven(records, 3)
        + StarsGiven(records, 4) + StarsGiven(records, 5)

RatingIsOf(r, records) ==
    /\ r.count = Len(records)
    /\ r.average.num * Len(records) = TotalOf(records) * r.average.den
    /\ Len(records) = 0 => r.average.num = 0

\* C13: for every project of the store, getProjectRating gives the number of
\* records stored under the title's sanitized key and their sum divided by
\* that number, and average 0, count 0 when none is stored.
C13_AverageAndCount ==
    \A i \in 1..Len(allProjects) :
        RatingIsOf(getProjectRating(ratings, allProjects[i].title),
                   StoredFor(allProjects[i].title))

\* "b" has the ratings 3, 4 and 5: average 4, count 3
C13_Witness ==
    /\ \E i \in 1..Len(allProjects) : allProjects[i].title = <<98>>
    /\ getProjectRating(ratings, <<98>>).count = 3
    /\ getProjectRating(ratings, <<98>>).average = [num |-> 12, den |-> 3]
    /\ \E i \in 1..Len(allProjects) :
          getProjectRating(ratings, allProjects[i].title) =
              [average |-> [num |-> 0, den |-> 1], count |-> 0]

\* the records new holds that old did not
Appended(old, new) ==
    {e \in UNION {{<<key, i>> : i \in 1..Len(new[key])} : key \in DOMAIN new} :
        e[1] \notin DOMAIN old \/ e[2] > Len(old[e[1]])}

\* C14: a step of the page appends only records whose rating is an integer
\* from 1 to 5, and while the modal is open with no star selected no step,
\* Submit included, changes the ratings or what localStorage holds.
C14_RatedOneToFive ==
    [][/\ \A e \in Appended(ratings, ratings') : ratings'[e[1]][e[2]].rating \in 1..5
       /\ (modal # <<>> /\ modal[1].selectedRating = 0) =>
              (ratings' = ratings /\ localStorage' = localStorage)]_vars

\* a rating of one star was submitted and the modal removed
C14_Witness ==
    /\ modal = <<>>
    /\ \E e \in Pushed(ratings) : ratings[e[1]][e[2]].rating = 1

(***************************************************************************)
(* Claims about the sort.                                                  *)
(***************************************************************************)
\* title a comes strictly before title b, letters compared without regard
\* to case
TitleBefore(a, b) ==
    \E k \in 1..(Len(a) + 1) :
        /\ k <= Len(b)
        /\ \A m \in 1..(k - 1) : LowerChar(a[m]) = LowerChar(b[m])
        /\ k = Len(a) + 1 \/ LowerChar(a[k]) < LowerChar(b[k])

\* what is displayed holds the filtered records, each once
DisplaysTheFiltered ==
    /\ Len(rendered.sorted) = Len(rendered.visible)
    /\ \A i \in 1..Len(rendered.visible) :
          \E j \in 1..Len(rendered.sorted) : rendered.sorted[j] = rendered.visible[i]
    /\ \A i, j \in 1..Len(rendered.sorted) :
          rendered.sorted[i] = rendered.sorted[j] => i = j

\* C15: with sort mode "az" the displayed sequence is the filtered records
\* in ascending order of title, letters compared without regard to case;
\* with "za" in descending order.
C15_SortByTitle ==
    /\ sortSelect = "az" =>
          /\ DisplaysTheFiltered
          /\ \A i, j \in 1..Len(rendered.sorted) :
                i < j => ~TitleBefore(rendered.sorted[j].title, rendered.sorted[i].title)
    /\ sortSelect = "za" =>
          /\ DisplaysTheFiltered
          /\ \A i, j \in 1..Len(rendered.sorted) :
                i < j => ~TitleBefore(rendered.sorted[i].title, rendered.sorted[j].title)

\* the store holds "C" then "b"; sorted "az" the page shows "b" then "C"
C15_Witness ==
    /\ sortSelect = "az"
    /\ rendered.visible = <<Pc, Pb>>
    /\ rendered.sorted = <<Pb, Pc>>

\* the average rating of a title, as the fraction AverageNum / AverageDen
AverageNum(title) == TotalOf(StoredFor(title))
AverageDen(title) == IF StoredFor(title) = <<>> THEN 1 ELSE Len(StoredFor(title))

AverageBelow(a, b) ==
    AverageNum(a) * AverageDen(b) < AverageNum(b) * AverageDen(a)

\* where a displayed record stood in the filtered result
VisibleIndex(p) == CHOOSE i \in 1..Len(rendered.visible) : rendered.visible[i] = p

KeepsFilteredOrder(i, j) ==
    VisibleIndex(rendered.sorted[i]) < VisibleIndex(rendered.sorted[j])

\* C16: with sort mode "rating-high" the displayed sequence is the filtered
\* records by descending average rating, with "rating-low" by ascending
\* average rating; records of equal average stay in the order the filtered
\* result had them in.
C16_SortByRating ==
    /\ sortSelect = "rating-high" =>
          /\ DisplaysTheFiltered
          /\ \A i, j \in 1..Len(rendered.sorted) :
                i < j =>
                    /\ ~AverageBelow(rendered.sorted[i].title, rendered.sorted[j].title)
                    /\ AverageBelow(rendered.sorted[j].title, rendered.sorted[i].title)
                          \/ KeepsFilteredOrder(i, j)
    /\ sortSelect = "rating-low" =>
          /\ DisplaysTheFiltered
          /\ \A i, j \in 1..Len(rendered.sorted) :
                i < j =>
                    /\ ~AverageBelow(rendered.sorted[j].title, rendered.sorted[i].title)
                    /\ AverageBelow(rendered.sorted[i].title, rendered.sorted[j].title)
                          \/ KeepsFilteredOrder(i, j)

\* thirteen records of which only "PB" is rated: "PB" first, then "PA",
\* "PC", ... as the store has them
C16_Witness ==
    /\ sortSelect = "rating-high"
    /\ Len(rendered.sorted) = ITEMS_PER_PAGE + 1
    /\ rendered.sorted[1].title = <<80, 66>>
    /\ rendered.sorted[2].title = <<80, 65>>
    /\ rendered.sorted[3].title = <<80, 67>>
    /\ rendered.sorted[ITEMS_PER_PAGE + 1].title = <<80, 77>>

(***************************************************************************)
(* Claims about the load and the controller (continued).                   *)
(***************************************************************************)
\* where the document of manifest entry i stands in what the call returns
ValueIndex(call, i) == Cardinality({j \in FetchedEntries(call) : j <= i})

\* C17: in the manifest-based load every record fetchFromManifest returns,
\* and so every record of a store built from the manifest, carries the link
\* of its manifest entry, whatever link its project.json carries.
C17_ManifestLink ==
    /\ \A f \in 1..Len(loads) : \A k \in 1..Len(loads[f].calls) :
          (loads[f].calls[k].st = "returned" /\ ~loads[f].calls[k].isNull) =>
              \A i \in FetchedEntries(loads[f].calls[k]) :
                  loads[f].calls[k].value[ValueIndex(loads[f].calls[k], i)].link
                      = manifestFile.projects[i].link
    /\ (lastDone # 0 /\ LastLoad.legacy = "none") =>
          \A n \in 1..Len(allProjects) :
              \E i \in 1..Len(manifestFile.projects) :
                  /\ allProjects[n].link = manifestFile.projects[i].link
                  /\ allProjects[n].title = DocAt(manifestFile.projects[i].path).data.title

\* a document that carries the link "own" and one that carries none, loaded
\* with the manifest's "m1" and "m2"
C17_Witness ==
    /\ lastDone # 0
    /\ LastLoad.legacy = "none"
    /\ Len(manifestFile.projects) = 2
    /\ DocAt(manifestFile.projects[1].path).data.link = "own"
    /\ DocAt(manifestFile.projects[2].path).data.link = ""
    /\ Len(LastLoad.projects) = 2
    /\ LastLoad.projects[1].link = "m1"
    /\ LastLoad.projects[2].link = "m2"
    /\ allProjects = <<LastLoad.projects[1]>>

\* C18: a construction that finds an instance (the listener's
\* new ProjectManager() on a later 'componentLoaded' event) leaves the
\* instance in place and resets none of allProjects, visibilityEngine,
\* currentPage, viewMode, ratings and initialized.
C18_Singleton ==
    [][(instance /\ Len(loads') > Len(loads)) =>
          /\ instance'
          /\ allProjects' = allProjects
          /\ visibilityEngine' = visibilityEngine
          /\ currentPage' = currentPage
          /\ viewMode' = viewMode
          /\ ratings' = ratings
          /\ initialized' = initialized]_vars

\* the component was announced twice, and the list view chosen is still on
C18_Witness ==
    /\ instance
    /\ listeners = 2
    /\ Len(loads) = 2
    /\ viewMode = "list"

\* the page is 1, or a page the filtered result reaches
PageInRange ==
    /\ currentPage >= 1
    /\ currentPage = 1 \/ (currentPage - 1) * ITEMS_PER_PAGE < Len(rendered.visible)
    /\ visibilityEngine # <<>> => visibilityEngine[1].currentPage = currentPage

\* C19: whatever events the page has taken (search, category, sort, view
\* mode, rating submission, enabled pagination buttons), what is rendered is
\* a page from 1 to max(1, total pages of the filtered result); and a change of
\* the search text, of the category or of the sort mode puts the page back
\* to 1.
C19_PageInRange ==
    /\ []PageInRange
    /\ [][(\/ searchInput' # searchInput
           \/ activeFilter' # activeFilter
           \/ sortSelect' # sortSelect) => currentPage' = 1]_vars

\* a rating was submitted and the second page is shown
C19_Witness ==
    /\ currentPage = 2
    /\ Len(rendered.pageItems) = 1
    /\ Pushed(ratings) # {}
    /\ modal = <<>>

\* where a record stands in the store as it was loaded
LoadedIndex(p) ==
    CHOOSE i \in 1..Len(legacyFile.records) : legacyFile.records[i] = p

C21_InitOnce ==
    /\ listeners <= 1
    /\ Len(loads) <= 1


(***************************************************************************)
(* Isolation of the ratings.                                               *)
(***************************************************************************)
\* the step submits a rating for the record at index i of the store
SubmitsFor(i) ==
    /\ modal # <<>>
    /\ modal[1].title = allProjects[i].title
    /\ ratings' # ratings

\* C22: for any two distinct records of the deduplicated store, a rating
\* submitted for one leaves the average and the count getProjectRating
\* reports for the other as they were.
C22_RatingsIsolated ==
    [][\A i, j \in 1..Len(allProjects) :
          (i # j /\ SubmitsFor(i)) =>
              getProjectRating(ratings', allProjects[j].title) =
                  getProjectRating(ratings, allProjects[j].title)]_vars

=============================================================================
